---------------------------- MODULE Spec2Model ----------------------------
(***************************************************************************)
(* Model of PatientProcessor (src/app.py): name normalisation, the roster  *)
(* ("mutual") index, the three-tier lookup and the per-doctor batch run.   *)
(*                                                                         *)
(* A Python str is a sequence of one-character strings.  A missing cell    *)
(* (pandas NaN) is the value NaN below.                                    *)
(***************************************************************************)
EXTENDS Integers, Sequences, FiniteSets, TLC

VARIABLES
    pc,               \* position of the modelled caller
    name,             \* argument of parse_patient_name
    format_hint,      \* argument of parse_patient_name
    parsed,           \* value returned by parse_patient_name
    renorm,           \* the returned surname, normalised once more
    status,           \* argument of process_status
    status_out,       \* value returned by process_status
    mutual_df,        \* roster rows: <<name, insurance code, insurance name>>
    exact_map,        \* self.exact_map
    last_to_firsts,   \* self.last_to_firsts
    query,            \* arguments of the last lookup_mutual call
    result,           \* value returned by the last lookup_mutual call
    appointment_df,   \* appointment rows
    doctor_mapping,   \* sequence of <<doctor_full, doctor_short>> (dict order)
    doc_i,            \* position of process_appointments in doctor_mapping
    apt_i,            \* position of the inner loop in doctor_appointments
    output_rows,      \* output_rows of the doctor being processed
    matched_count,    \* matched_count of the doctor being processed
    doctor_dfs,       \* doctor_short -> output rows
    stats             \* self.stats

vars == <<pc, name, format_hint, parsed, renorm, status, status_out, mutual_df,
          exact_map, last_to_firsts, query, result, appointment_df,
          doctor_mapping, doc_i, apt_i, output_rows, matched_count,
          doctor_dfs, stats>>

-----------------------------------------------------------------------------
(* Bounds of the model *)

MaxNameLen == 4
MaxStatusLen == 4
MaxRoster == 3
MaxAppointments == 2

-----------------------------------------------------------------------------
(* Python str primitives *)

NaN == <<"NaN">>
EmptyStr == <<>>

isna(x) == x = NaN

UpperChars == <<"A","B","C","D","E","F","G","H","I","J","K","L","M",
                "N","O","P","Q","R","S","T","U","V","W","X","Y","Z">>
LowerChars == <<"a","b","c","d","e","f","g","h","i","j","k","l","m",
                "n","o","p","q","r","s","t","u","v","w","x","y","z">>

UpperSet == { UpperChars[i] : i \in 1..26 }
LowerSet == { LowerChars[i] : i \in 1..26 }
ToLower == [c \in UpperSet |-> LowerChars[CHOOSE i \in 1..26 : UpperChars[i] = c]]
ToUpper == [c \in LowerSet |-> UpperChars[CHOOSE i \in 1..26 : LowerChars[i] = c]]

LowerChar(c) == IF c \in UpperSet THEN ToLower[c] ELSE c
UpperChar(c) == IF c \in LowerSet THEN ToUpper[c] ELSE c

IsLetter(c) == c \in UpperSet \/ c \in LowerSet

RECURSIVE lower(_)
lower(s) == IF s = <<>> THEN <<>> ELSE <<LowerChar(Head(s))>> \o lower(Tail(s))

IsSpace(c) == c = " "

RECURSIVE lstrip(_)
lstrip(s) == IF s # <<>> /\ IsSpace(Head(s)) THEN lstrip(Tail(s)) ELSE s

RECURSIVE rstrip(_)
rstrip(s) ==
    IF s # <<>> /\ IsSpace(s[Len(s)]) THEN rstrip(SubSeq(s, 1, Len(s) - 1)) ELSE s

strip(s) == rstrip(lstrip(s))

\* s.split(): the maximal runs of non-whitespace characters, in order
RECURSIVE split_acc(_, _, _)
split_acc(s, cur, acc) ==
    IF s = <<>> THEN (IF cur = <<>> THEN acc ELSE Append(acc, cur))
    ELSE IF IsSpace(Head(s))
         THEN split_acc(Tail(s), <<>>, IF cur = <<>> THEN acc ELSE Append(acc, cur))
         ELSE split_acc(Tail(s), Append(cur, Head(s)), acc)

split(s) == split_acc(s, <<>>, <<>>)

\* " ".join(parts)
RECURSIVE join(_)
join(parts) ==
    IF parts = <<>> THEN <<>>
    ELSE IF Len(parts) = 1 THEN parts[1]
    ELSE parts[1] \o <<" ">> \o join(Tail(parts))

\* s.replace(old, new), old non-empty: leftmost non-overlapping occurrences
RECURSIVE replace(_, _, _)
replace(s, old, new) ==
    IF Len(s) < Len(old) THEN s
    ELSE IF SubSeq(s, 1, Len(old)) = old
         THEN new \o replace(SubSeq(s, Len(old) + 1, Len(s)), old, new)
         ELSE <<Head(s)>> \o replace(Tail(s), old, new)

contains(s, c) == \E i \in 1..Len(s) : s[i] = c

find(s, c) == CHOOSE i \in 1..Len(s) : s[i] = c /\ \A j \in 1..(i - 1) : s[j] # c

\* a.startswith(b)
startswith(a, b) == Len(b) <= Len(a) /\ SubSeq(a, 1, Len(b)) = b

\* len(os.path.commonprefix([a, b]))
RECURSIVE commonprefix_len(_, _)
commonprefix_len(a, b) ==
    IF a # <<>> /\ b # <<>> /\ Head(a) = Head(b)
    THEN 1 + commonprefix_len(Tail(a), Tail(b))
    ELSE 0

\* str.capitalize(): first character upper-cased, the rest lower-cased
capitalize(s) ==
    IF s = <<>> THEN <<>> ELSE <<UpperChar(Head(s))>> \o lower(Tail(s))

-----------------------------------------------------------------------------
(* Name Normalizer *)

SUFFIXES == { <<"j","r">>, <<"s","r">>, <<"i","i">>, <<"i","i","i">>,
              <<"i","v">>, <<"v">>, <<"m","d">>, <<"p","h","d">>,
              <<"p","s","y","d">>, <<"d","o">> }

clean_spaces(s) ==
    IF isna(s) \/ s = EmptyStr THEN EmptyStr
    ELSE LET s1 == strip(s)
             s2 == replace(s1, <<" ", ",">>, <<",">>)
             s3 == replace(s2, <<",", " ", " ">>, <<",", " ">>)
             s4 == replace(s3, <<" ", " ">>, <<" ">>)
         IN  join(split(s4))

normalize_basic(x) ==
    IF isna(x) THEN EmptyStr
    ELSE LET s == clean_spaces(lower(strip(x)))
         IN  replace(replace(s, <<".">>, <<>>), <<"'">>, <<>>)

\* a plausible slip: "if" instead of "while", one suffix removed at most
pop_suffixes_once(parts) ==
    IF parts # <<>> /\ lower(parts[Len(parts)]) \in SUFFIXES
    THEN SubSeq(parts, 1, Len(parts) - 1)
    ELSE parts

\* lines 49-50
RECURSIVE pop_suffixes(_)
pop_suffixes(parts) ==
    IF parts # <<>> /\ lower(parts[Len(parts)]) \in SUFFIXES
    THEN pop_suffixes(SubSeq(parts, 1, Len(parts) - 1))
    ELSE parts

strip_suffixes(name_part) == join(pop_suffixes(split(name_part)))

\* lines 96-109: parenthetical alias, normalisation, first token
normalize_parts(last_name, first_name) ==
    LET last0 == IF contains(last_name, "(")
                 THEN strip(SubSeq(last_name, 1, find(last_name, "(") - 1))
                 ELSE last_name
        last1  == strip_suffixes(normalize_basic(last0))
        first1 == strip_suffixes(normalize_basic(first_name))
        first_token == IF first1 # EmptyStr THEN split(first1)[1] ELSE EmptyStr
    IN  <<last1, first_token>>

parse_patient_name(nm, hint) ==
    IF isna(nm) \/ nm = EmptyStr THEN <<EmptyStr, EmptyStr>>
    ELSE
      LET n == strip(nm)
          format_to_use ==
              IF hint = "auto"
              THEN (IF contains(n, ",") THEN "last_first" ELSE "first_last")
              ELSE hint
          parts == split(n)
          \* <<last_name, first_name>> as split, lines 72-94
          raw == IF format_to_use = "last_first"
                 THEN IF contains(n, ",")
                      THEN <<strip(SubSeq(n, 1, find(n, ",") - 1)),
                             strip(SubSeq(n, find(n, ",") + 1, Len(n)))>>
                      ELSE <<n, EmptyStr>>
                 ELSE IF Len(parts) = 1 THEN <<parts[1], EmptyStr>>
                 ELSE <<parts[Len(parts)], join(SubSeq(parts, 1, Len(parts) - 1))>>
      IN  IF format_to_use # "last_first" /\ Len(parts) = 0
          THEN <<EmptyStr, EmptyStr>>
          ELSE normalize_parts(raw[1], raw[2])

\* a plausible slip: the comparison with "Seen" is case-sensitive
process_status_case_sensitive(st) ==
    IF isna(st) \/ st = EmptyStr THEN EmptyStr
    ELSE LET status_str == strip(st) IN
         IF status_str = <<"S","e","e","n">> THEN EmptyStr
         ELSE status_str

process_status(st) ==
    IF isna(st) \/ st = EmptyStr THEN EmptyStr
    ELSE LET status_str == strip(st) IN
         IF lower(status_str) = <<"s","e","e","n">> THEN EmptyStr
         ELSE status_str

-----------------------------------------------------------------------------
(* Roster Index and Identity Resolver *)

None == <<"None">>
NotFound == <<None, None>>

\* dict primitives: a dict is a function on its keys
has_key(d, k) == k \in DOMAIN d
put(d, k, v) == [x \in (DOMAIN d) \cup {k} |-> IF x = k THEN v ELSE d[x]]
get(d, k, default) == IF has_key(d, k) THEN d[k] ELSE default

\* a plausible slip: every row writes the exact map, the last duplicate wins
exact_insert_overwrite(em, pair, payload) == put(em, pair, payload)

\* lines 136-137
exact_insert(em, pair, payload) ==
    IF ~has_key(em, pair) THEN put(em, pair, payload) ELSE em

\* a plausible slip: the guard of lines 127-128 is missing
skip_row_never(last) == FALSE

\* lines 127-128
skip_row(last) == last = EmptyStr

\* one iteration of the loop of build_mutual_index
index_row(row, em, ltf) ==
    LET p == parse_patient_name(row[1], "last_first")
        last == p[1]
        first_tok == p[2]
        pair == IF first_tok # EmptyStr THEN <<last, first_tok>>
                ELSE <<last, EmptyStr>>
        insurance_code == IF ~isna(row[2]) THEN row[2] ELSE EmptyStr
        insurance_name == IF ~isna(row[3]) THEN row[3] ELSE EmptyStr
        payload == <<insurance_code, insurance_name>>
    IN  IF skip_row(last) THEN [exact_map |-> em, last_to_firsts |-> ltf]
        ELSE [exact_map |-> exact_insert(em, pair, payload),
              last_to_firsts |->
                  IF first_tok # EmptyStr
                  THEN put(ltf, last,
                           Append(get(ltf, last, <<>>), <<first_tok, payload>>))
                  ELSE ltf]

RECURSIVE index_rows(_, _, _)
index_rows(rows, em, ltf) ==
    IF rows = <<>> THEN [exact_map |-> em, last_to_firsts |-> ltf]
    ELSE LET r == index_row(Head(rows), em, ltf)
         IN  index_rows(Tail(rows), r.exact_map, r.last_to_firsts)

build_mutual_index(df) == index_rows(df, <<>>, <<>>)

names_prefix_match(a_first, b_first) ==
    IF a_first = EmptyStr \/ b_first = EmptyStr THEN FALSE
    ELSE startswith(a_first, b_first) \/ startswith(b_first, a_first)

\* a plausible slip: ">=" keeps the latest maximal candidate
is_better_or_equal(common_len, best_len) == common_len >= best_len

\* line 170
is_better(common_len, best_len) == common_len > best_len

\* lines 167-172: the scan over the candidates, carrying best and best_len
RECURSIVE scan_candidates(_, _, _, _)
scan_candidates(candidates, first_token, best, best_len) ==
    IF candidates = <<>> THEN best
    ELSE LET cand_first == Head(candidates)[1]
             data == Head(candidates)[2]
             common_len == commonprefix_len(first_token, cand_first)
         IN  IF names_prefix_match(first_token, cand_first)
                /\ is_better(common_len, best_len)
             THEN scan_candidates(Tail(candidates), first_token, data, common_len)
             ELSE scan_candidates(Tail(candidates), first_token, best, best_len)

\* lines 161-177
prefix_fallback(ltf, last, first_token) ==
    IF first_token # EmptyStr
    THEN LET best == scan_candidates(get(ltf, last, <<>>), first_token, None, -1)
         IN  IF best # None THEN best ELSE NotFound
    ELSE NotFound

\* a plausible slip: the prefix scan is tried before the surname-only entry
lookup_tiers_swapped(em, ltf, last, first_token) ==
    LET pair == IF first_token # EmptyStr THEN <<last, first_token>>
                ELSE <<last, EmptyStr>>
    IN  IF has_key(em, pair) THEN em[pair]
        ELSE IF prefix_fallback(ltf, last, first_token) # NotFound
             THEN prefix_fallback(ltf, last, first_token)
        ELSE IF first_token # EmptyStr /\ has_key(em, <<last, EmptyStr>>)
             THEN em[<<last, EmptyStr>>]
        ELSE NotFound

\* lines 152-177, after the guard on an empty surname
lookup_tiers(em, ltf, last, first_token) ==
    LET pair == IF first_token # EmptyStr THEN <<last, first_token>>
                ELSE <<last, EmptyStr>>
    IN  IF has_key(em, pair) THEN em[pair]
        ELSE IF first_token # EmptyStr /\ has_key(em, <<last, EmptyStr>>)
             THEN em[<<last, EmptyStr>>]
        ELSE prefix_fallback(ltf, last, first_token)

lookup_mutual(em, ltf, last, first_token) ==
    IF last = EmptyStr THEN NotFound
    ELSE lookup_tiers(em, ltf, last, first_token)

\* a plausible slip: setdefault(last, []) instead of get(last, [])
candidates_setdefault(ltf, last, first_token) ==
    IF last # EmptyStr /\ first_token # EmptyStr /\ ~has_key(ltf, last)
    THEN put(ltf, last, <<>>)
    ELSE ltf

\* self.last_to_firsts after a call of lookup_mutual: line 163 reads it with
\* dict.get, which inserts nothing
last_to_firsts_after_lookup(ltf, last, first_token) == ltf

-----------------------------------------------------------------------------
(* Batch Orchestrator *)

NanStr == <<"n","a","n">>

\* dates of the modelled batches and their MM/DD/YYYY form (pd.to_datetime)
IsoDate == <<"2","0","2","5","-","1","1","-","0","3">>
UsDate == <<"1","1","/","0","3","/","2","0","2","5">>
KnownDates == { IsoDate }

format_date(val) ==
    IF isna(val) THEN EmptyStr
    ELSE IF val \in KnownDates THEN UsDate
    ELSE val

truthy(x) == x # None /\ x # EmptyStr

\* a plausible slip: "and" instead of "or"
is_matched_both(codes, insurance) == truthy(codes) /\ truthy(insurance)

\* line 262
is_matched(codes, insurance) == truthy(codes) \/ truthy(insurance)

RECURSIVE capitalize_words(_)
capitalize_words(words) ==
    IF words = <<>> THEN <<>>
    ELSE <<capitalize(Head(words))>> \o capitalize_words(Tail(words))

\* lines 248-257
format_name(patient_name, last, first) ==
    IF last # EmptyStr /\ first # EmptyStr
    THEN join(capitalize_words(split(last))) \o <<",", " ">>
             \o join(capitalize_words(split(first)))
    ELSE IF last # EmptyStr THEN capitalize(last)
    ELSE IF isna(patient_name) THEN NanStr ELSE patient_name

\* lines 265-272: the output row, from the parsed name and the lookup result
output_row(apt, p, found) ==
    LET codes == found[1]
        insurance == found[2]
    IN  << format_name(apt.Patient, p[1], p[2]),
           IF truthy(insurance) THEN insurance ELSE EmptyStr,
           format_date(apt.AppointmentTime),
           process_status(apt.AppointmentStatus),
           EmptyStr,
           EmptyStr,
           IF truthy(codes) THEN codes ELSE EmptyStr >>

\* lines 232-234
doctor_appointments(df, doctor_full) ==
    SelectSeq(df, LAMBDA apt : apt.SeenBy = doctor_full)

\* line 384
default_short(doc) == IF split(doc) # <<>> THEN split(doc)[1] ELSE doc

-----------------------------------------------------------------------------
(* Values of the variables a specification does not use *)

NoParse == <<EmptyStr, EmptyStr>>
NoResult == NotFound
NoStats == [total_appointments |-> 0, doctors_processed |-> <<>>]

ParseIdle ==
    /\ name = EmptyStr /\ format_hint = "auto"
    /\ parsed = NoParse /\ renorm = EmptyStr
StatusIdle == status = EmptyStr /\ status_out = EmptyStr
IndexIdle ==
    /\ mutual_df = <<>> /\ exact_map = <<>> /\ last_to_firsts = <<>>
    /\ query = NoParse /\ result = NoResult
RunIdle ==
    /\ appointment_df = <<>> /\ doctor_mapping = <<>>
    /\ doc_i = 0 /\ apt_i = 0 /\ output_rows = <<>> /\ matched_count = 0
    /\ doctor_dfs = <<>> /\ stats = NoStats

parseVars == <<name, format_hint, parsed, renorm>>
statusVars == <<status, status_out>>
indexVars == <<mutual_df, exact_map, last_to_firsts, query, result>>
runVars == <<appointment_df, doctor_mapping, doc_i, apt_i, output_rows,
             matched_count, doctor_dfs, stats>>

StringsUpTo(alphabet, n) == UNION { [1..k -> alphabet] : k \in 0..n }

-----------------------------------------------------------------------------
(* Spec: build_mutual_index over a bounded roster, then lookup_mutual calls *)

Lee_Jo == <<"L","e","e",","," ","J","o">>
LEE_Joh == <<"L","E","E",",","J","o","h">>
Lee == <<"L","e","e">>
Jr_Jo == <<"J","r",","," ","J","o">>
Kim_Al == <<"K","i","m",","," ","A","l">>

A1 == <<"A","1">>
Acme == <<"A","c","m","e">>

RosterNames == {Lee_Jo, LEE_Joh, Lee, Jr_Jo, Kim_Al}
RosterPayloads == { <<A1, Acme>>, <<NaN, NaN>> }
RosterRows == { <<n, p[1], p[2]>> : n \in RosterNames, p \in RosterPayloads }

SeqsUpTo(S, n) == UNION { [1..k -> S] : k \in 0..n }

QuerySurnames == { EmptyStr, <<"l","e","e">>, <<"j","r">> }
QueryTokens == { EmptyStr, <<"j","o">>, <<"j","o","h","n">>, <<"a">> }

Init ==
    /\ pc = "start"
    /\ mutual_df \in SeqsUpTo(RosterRows, MaxRoster)
    /\ exact_map = <<>> /\ last_to_firsts = <<>>
    /\ query = NoParse /\ result = NoResult
    /\ ParseIdle /\ StatusIdle /\ RunIdle

BuildIndex ==
    /\ pc = "start"
    /\ LET built == build_mutual_index(mutual_df) IN
          /\ exact_map' = built.exact_map
          /\ last_to_firsts' = built.last_to_firsts
    /\ pc' = "indexed"
    /\ UNCHANGED <<mutual_df, query, result, parseVars, statusVars, runVars>>

Lookup ==
    /\ pc = "indexed"
    /\ \E last \in QuerySurnames, first_token \in QueryTokens :
          /\ query' = <<last, first_token>>
          /\ result' = lookup_mutual(exact_map, last_to_firsts, last, first_token)
          /\ last_to_firsts' =
                 last_to_firsts_after_lookup(last_to_firsts, last, first_token)
    /\ UNCHANGED <<pc, mutual_df, exact_map, parseVars, statusVars, runVars>>

Next == BuildIndex \/ Lookup

Spec == Init /\ [][Next]_vars

-----------------------------------------------------------------------------
(* SpecRun: the app from the uploaded files to the end of process_appointments *)

\* status strings of the modelled batches
Seen == <<"S","e","e","n">>
SeenPadded == <<" ","S","e","e","n"," ">>
Pending == <<"P","e","n","d","i","n","g">>
PendingPadded == <<" ","P","e","n","d","i","n","g"," ">>

DrA == <<"D","r"," ","A">>
DrB == <<"D","r"," ","B">>
\* sorted(appointment_df['SeenBy'].unique()) over the modelled doctors
DoctorsSorted == <<DrA, DrB>>

Jo_Lee == <<"J","o"," ","L","e","e">>
Al_Kim == <<"A","l"," ","K","i","m">>
Eve_Roe == <<"E","v","e"," ","R","o","e">>

RunPatients == {Jo_Lee, Al_Kim, Eve_Roe}
AppointmentRows ==
    [Patient : RunPatients, SeenBy : {DrA, DrB},
     AppointmentTime : {IsoDate}, AppointmentStatus : {Seen}]

RunRosterRows == { <<Lee_Jo, A1, NaN>>, <<Kim_Al, NaN, NaN>> }

unique_doctors(df) ==
    SelectSeq(DoctorsSorted, LAMBDA d : \E i \in 1..Len(df) : df[i].SeenBy = d)

\* what the user may leave or type as a short name
ShortChoices(doc) == { default_short(doc), split(doc)[Len(split(doc))] }

InitRun ==
    /\ pc = "uploaded"
    /\ appointment_df \in SeqsUpTo(AppointmentRows, MaxAppointments)
    /\ mutual_df \in SeqsUpTo(RunRosterRows, MaxRoster)
    /\ doctor_mapping = <<>>
    /\ doc_i = 0 /\ apt_i = 0 /\ output_rows = <<>> /\ matched_count = 0
    /\ doctor_dfs = <<>> /\ stats = NoStats
    /\ exact_map = <<>> /\ last_to_firsts = <<>>
    /\ query = NoParse /\ result = NoResult
    /\ ParseIdle /\ StatusIdle

\* lines 377-386
ConfigureDoctors ==
    /\ pc = "uploaded"
    /\ LET docs == unique_doctors(appointment_df) IN
       \E shorts \in [1..Len(docs) -> UNION { ShortChoices(docs[i]) : i \in 1..Len(docs) }] :
          /\ \A i \in 1..Len(docs) : shorts[i] \in ShortChoices(docs[i])
          /\ doctor_mapping' = [i \in 1..Len(docs) |-> <<docs[i], shorts[i]>>]
    /\ pc' = "configured"
    /\ UNCHANGED <<appointment_df, mutual_df, doc_i, apt_i, output_rows,
                   matched_count, doctor_dfs, stats, exact_map, last_to_firsts,
                   query, result, parseVars, statusVars>>

\* run, lines 331-336
RunSetup ==
    /\ pc = "configured"
    /\ stats' = [stats EXCEPT !.total_appointments = Len(appointment_df)]
    /\ LET built == build_mutual_index(mutual_df) IN
          /\ exact_map' = built.exact_map
          /\ last_to_firsts' = built.last_to_firsts
    /\ doc_i' = 0
    /\ pc' = "doctors"
    /\ UNCHANGED <<appointment_df, mutual_df, doctor_mapping, apt_i, output_rows,
                   matched_count, doctor_dfs, query, result, parseVars, statusVars>>

\* lines 230-241: the next doctor of the mapping
DoctorBegin ==
    /\ pc = "doctors"
    /\ doc_i < Len(doctor_mapping)
    /\ doc_i' = doc_i + 1
    /\ IF Len(doctor_appointments(appointment_df, doctor_mapping[doc_i + 1][1])) = 0
       THEN UNCHANGED <<pc, apt_i, output_rows, matched_count>>
       ELSE /\ pc' = "appointments"
            /\ apt_i' = 0
            /\ output_rows' = <<>>
            /\ matched_count' = 0
    /\ UNCHANGED <<appointment_df, mutual_df, doctor_mapping, doctor_dfs, stats,
                   exact_map, last_to_firsts, query, result, parseVars, statusVars>>

\* lines 243-274: the next appointment of the doctor
ProcessAppointment ==
    /\ pc = "appointments"
    /\ LET apts == doctor_appointments(appointment_df, doctor_mapping[doc_i][1]) IN
       /\ apt_i < Len(apts)
       /\ LET apt == apts[apt_i + 1]
              p == parse_patient_name(apt.Patient, "first_last")
              found == lookup_mutual(exact_map, last_to_firsts, p[1], p[2])
          IN  /\ query' = p
              /\ result' = found
              /\ last_to_firsts' =
                     last_to_firsts_after_lookup(last_to_firsts, p[1], p[2])
              /\ matched_count' =
                     IF is_matched(found[1], found[2])
                     THEN matched_count + 1 ELSE matched_count
              /\ output_rows' = Append(output_rows, output_row(apt, p, found))
    /\ apt_i' = apt_i + 1
    /\ UNCHANGED <<pc, appointment_df, mutual_df, doctor_mapping, doc_i, doctor_dfs,
                   stats, exact_map, parseVars, statusVars>>

\* lines 276-284: the doctor's frame and statistics are stored under the short name
DoctorEnd ==
    /\ pc = "appointments"
    /\ LET apts == doctor_appointments(appointment_df, doctor_mapping[doc_i][1])
           doctor_short == doctor_mapping[doc_i][2]
       IN
       /\ apt_i = Len(apts)
       /\ doctor_dfs' = put(doctor_dfs, doctor_short, output_rows)
       /\ stats' = [stats EXCEPT !.doctors_processed =
                        put(@, doctor_short,
                            [total |-> Len(apts), matched |-> matched_count])]
    /\ pc' = "doctors"
    /\ UNCHANGED <<appointment_df, mutual_df, doctor_mapping, doc_i, apt_i,
                   output_rows, matched_count, exact_map, last_to_firsts, query,
                   result, parseVars, statusVars>>

\* line 286 and the rest of run, which changes none of the modelled state
RunDone ==
    /\ pc = "doctors"
    /\ doc_i = Len(doctor_mapping)
    /\ pc' = "done"
    /\ UNCHANGED <<parseVars, statusVars, indexVars, runVars>>

NextRun ==
    ConfigureDoctors \/ RunSetup \/ DoctorBegin \/ ProcessAppointment
        \/ DoctorEnd \/ RunDone

SpecRun == InitRun /\ [][NextRun]_vars

-----------------------------------------------------------------------------
(* SpecParse: parse_patient_name over bounded names *)

NameAlphabet == {"s", "V", " ", ",", ".", "(", "'"}

SmithJr == <<"S","m","i","t","h"," ","J","r">>
SmithJohn == <<"S","m","i","t","h",","," ","J","o","h","n">>
JohnSmith == <<"J","o","h","n"," ","S","m","i","t","h">>
RussellKwonMary == <<"R","u","s","s","e","l","l"," ","(","K","w","o","n",")",
                     ","," ","M","a","r","y">>
SmithComma == <<"S","m","i","t","h",",">>
ODellJrMd == <<"O","'","D","e","l","l"," ","J","r","."," ","M","D">>

SampleNames == {SmithJr, SmithJohn, JohnSmith, RussellKwonMary, SmithComma,
                ODellJrMd}

Names == StringsUpTo(NameAlphabet, MaxNameLen) \cup SampleNames \cup {NaN}

FormatHints == {"auto", "last_first", "first_last"}

InitParse ==
    /\ pc = "name"
    /\ name \in Names
    /\ format_hint = "auto" /\ parsed = NoParse /\ renorm = EmptyStr
    /\ StatusIdle /\ IndexIdle /\ RunIdle

Parse ==
    /\ pc = "name"
    /\ \E hint \in FormatHints :
          /\ format_hint' = hint
          /\ parsed' = parse_patient_name(name, hint)
    /\ pc' = "parsed"
    /\ UNCHANGED <<name, renorm, statusVars, indexVars, runVars>>

\* the returned surname is normalised again (normalize_basic, strip_suffixes)
Renormalize ==
    /\ pc = "parsed"
    /\ renorm' = strip_suffixes(normalize_basic(parsed[1]))
    /\ pc' = "renormalized"
    /\ UNCHANGED <<name, format_hint, parsed, statusVars, indexVars, runVars>>

NextParse == Parse \/ Renormalize

SpecParse == InitParse /\ [][NextParse]_vars

-----------------------------------------------------------------------------
(* SpecStatus: process_status over bounded status strings *)

StatusAlphabet == {"s", "S", "e", "E", "n", "N", " ", "p"}

SampleStatuses == {Seen, SeenPadded, Pending, PendingPadded}

Statuses == StringsUpTo(StatusAlphabet, MaxStatusLen) \cup SampleStatuses \cup {NaN}

InitStatus ==
    /\ pc = "status"
    /\ status \in Statuses
    /\ status_out = EmptyStr
    /\ ParseIdle /\ IndexIdle /\ RunIdle

ProcessStatus ==
    /\ pc = "status"
    /\ status_out' = process_status(status)
    /\ pc' = "status_done"
    /\ UNCHANGED <<status, parseVars, indexVars, runVars>>

NextStatus == ProcessStatus

SpecStatus == InitStatus /\ [][NextStatus]_vars

-----------------------------------------------------------------------------
(* Properties of the roster index and of lookup_mutual, checked under Spec *)

RowKey(row) == parse_patient_name(row[1], "last_first")
RowPayload(row) ==
    << IF isna(row[2]) THEN EmptyStr ELSE row[2],
       IF isna(row[3]) THEN EmptyStr ELSE row[3] >>
\* <<key, payload>> of every roster row, in roster order
RosterEntries == [i \in 1..Len(mutual_df) |->
                     <<RowKey(mutual_df[i]), RowPayload(mutual_df[i])>>]
Valid(entries) == { i \in 1..Len(entries) : entries[i][1][1] # EmptyStr }
FirstOf(entries, k) ==
    CHOOSE i \in Valid(entries) :
        /\ entries[i][1] = k
        /\ \A j \in Valid(entries) : entries[j][1] = k => i <= j
InBucket(entry, surname) == entry[1][1] = surname /\ entry[1][2] # EmptyStr
Bucket(entries, surname) ==
    LET rows == SelectSeq(entries, LAMBDA e : InBucket(e, surname))
    IN  [i \in 1..Len(rows) |-> <<rows[i][1][2], rows[i][2]>>]

Looked == pc = "indexed" /\ query # NoParse
QLast == query[1]
QFirst == query[2]
Tier1Hit == has_key(exact_map, <<QLast, QFirst>>)
Tier2Hit == QFirst # EmptyStr /\ has_key(exact_map, <<QLast, EmptyStr>>)

Candidates == IF QLast \in DOMAIN last_to_firsts THEN last_to_firsts[QLast] ELSE <<>>
Eligible(i) ==
    \/ startswith(Candidates[i][1], QFirst)
    \/ startswith(QFirst, Candidates[i][1])
CommonLen(i) ==
    CHOOSE k \in 0..Len(QFirst) :
        /\ k <= Len(Candidates[i][1])
        /\ SubSeq(QFirst, 1, k) = SubSeq(Candidates[i][1], 1, k)
        /\ \/ k = Len(QFirst) \/ k = Len(Candidates[i][1])
           \/ QFirst[k + 1] # Candidates[i][1][k + 1]
EligibleSet == { i \in 1..Len(Candidates) : Eligible(i) }
Winner ==
    CHOOSE i \in EligibleSet :
        \A j \in EligibleSet :
            \/ CommonLen(j) < CommonLen(i)
            \/ (CommonLen(j) = CommonLen(i) /\ i <= j)

\* C1: with a non-empty surname, lookup_mutual returns the exact entry of
\* (surname, given_token) when there is one; otherwise, for a non-empty
\* given_token, the entry of (surname, "") when there is one; otherwise, for
\* a non-empty given_token, the prefix fallback result over the surname's
\* bucket; otherwise (None, None).
C1_ThreeTiers ==
    (Looked /\ QLast # EmptyStr) =>
        IF Tier1Hit THEN result = exact_map[<<QLast, QFirst>>]
        ELSE IF Tier2Hit THEN result = exact_map[<<QLast, EmptyStr>>]
        ELSE IF QFirst # EmptyStr
             THEN result = IF EligibleSet = {} THEN NotFound
                           ELSE Candidates[Winner][2]
        ELSE result = NotFound

\* tier 2 answered although the prefix scan would have found another payload
C1_Witness ==
    /\ Looked /\ QLast # EmptyStr /\ ~Tier1Hit /\ Tier2Hit
    /\ EligibleSet # {}
    /\ Candidates[Winner][2] # exact_map[<<QLast, EmptyStr>>]
    /\ result = exact_map[<<QLast, EmptyStr>>]

\* C2: when tiers 1 and 2 miss and given_token is non-empty, the result is the
\* payload of the candidate of the surname's bucket that is a prefix of, or
\* prefixed by, given_token and has the longest common prefix with it, the
\* earliest such candidate on a tie; (None, None) when there is none.
C2_PrefixFallback ==
    (Looked /\ QLast # EmptyStr /\ QFirst # EmptyStr /\ ~Tier1Hit /\ ~Tier2Hit) =>
        /\ (EligibleSet = {} => result = NotFound)
        /\ (EligibleSet # {} =>
               \E i \in EligibleSet :
                   /\ result = Candidates[i][2]
                   /\ \A j \in EligibleSet : CommonLen(j) <= CommonLen(i)
                   /\ \A j \in EligibleSet : CommonLen(j) = CommonLen(i) => i <= j)

\* two eligible candidates tie on the common prefix and carry different
\* payloads, and a third, non-maximal one is eligible too
C2_Witness ==
    /\ Looked /\ QLast # EmptyStr /\ QFirst # EmptyStr /\ ~Tier1Hit /\ ~Tier2Hit
    /\ \E i, j \in EligibleSet :
          /\ i < j /\ CommonLen(i) = CommonLen(j)
          /\ Candidates[i][2] # Candidates[j][2]
          /\ \A k \in EligibleSet : CommonLen(k) <= CommonLen(i)
          /\ result = Candidates[i][2]
    /\ \E k \in EligibleSet : CommonLen(k) < CommonLen(Winner)

\* C3: after build_mutual_index the exact map holds, for each key, the payload
\* of the first roster row normalising to it, and each surname's bucket is the
\* sequence, in roster order, of (given_token, payload) of all rows with that
\* surname and a non-empty given_token.
C3_IndexContents ==
    pc = "indexed" =>
        LET entries == RosterEntries IN
        /\ DOMAIN exact_map = { entries[i][1] : i \in Valid(entries) }
        /\ \A k \in DOMAIN exact_map :
               exact_map[k] = entries[FirstOf(entries, k)][2]
        /\ DOMAIN last_to_firsts =
               { entries[i][1][1] :
                     i \in { j \in Valid(entries) : entries[j][1][2] # EmptyStr } }
        /\ \A surname \in DOMAIN last_to_firsts :
               last_to_firsts[surname] = Bucket(entries, surname)

\* a later row repeats a key with another payload
C3_Witness ==
    /\ pc = "indexed"
    /\ LET entries == RosterEntries IN
       \E i, j \in Valid(entries) :
          /\ i < j
          /\ entries[i][1] = entries[j][1]
          /\ entries[i][1][2] # EmptyStr
          /\ entries[i][2] # entries[j][2]
          /\ exact_map[entries[i][1]] = entries[i][2]
          /\ Len(last_to_firsts[entries[i][1][1]]) >= 2

\* C4: no key of the exact map and no bucket has an empty surname; a lookup
\* with an empty surname, or with a surname no indexed row has, returns
\* (None, None).
C4_EmptySurnameNeverMatches ==
    /\ \A k \in DOMAIN exact_map : k[1] # EmptyStr
    /\ \A surname \in DOMAIN last_to_firsts : surname # EmptyStr
    /\ (Looked /\ QLast = EmptyStr) => result = NotFound
    /\ (Looked /\ \A i \in 1..Len(mutual_df) : RowKey(mutual_df[i])[1] # QLast) =>
           result = NotFound

\* the roster has a row without a surname, and a lookup with an empty surname
\* and the given token of that row has returned
C4_Witness ==
    /\ Looked /\ QLast = EmptyStr /\ QFirst # EmptyStr
    /\ \E i \in 1..Len(mutual_df) :
          /\ RowKey(mutual_df[i])[1] = EmptyStr
          /\ RowKey(mutual_df[i])[2] = QFirst
    /\ result = NotFound

\* C9: a call of lookup_mutual leaves exact_map and last_to_firsts as they
\* were, so that what it returned is what a lookup of the same query returns
\* on the index afterwards, whatever was looked up before.
C9_LookupReadOnly ==
    [][pc = "indexed" =>
          /\ exact_map' = exact_map
          /\ last_to_firsts' = last_to_firsts
          /\ result' = lookup_mutual(exact_map', last_to_firsts',
                                     query'[1], query'[2])]_vars

\* a lookup with a given token for a surname that has no bucket has returned
C9_Witness ==
    /\ Looked /\ QLast # EmptyStr /\ QFirst # EmptyStr
    /\ Len(mutual_df) > 0
    /\ QLast \notin DOMAIN last_to_firsts
    /\ result = NotFound

-----------------------------------------------------------------------------
(* Properties of process_appointments and run, checked under SpecRun *)

RowHasPayload(row) == row[2] # EmptyStr \/ row[7] # EmptyStr
MatchedRows(rows) == Cardinality({ i \in 1..Len(rows) : RowHasPayload(rows[i]) })

RECURSIVE SumOver(_, _)
SumOver(S, f) ==
    IF S = {} THEN 0
    ELSE LET x == CHOOSE y \in S : TRUE IN f[x] + SumOver(S \ {x}, f)

\* C7: an appointment whose lookup returned (None, None) gets a row with empty
\* insurance and code fields and does not raise matched_count, and the
\* 'matched' count recorded for a group is the number of rows of the group's
\* output with a non-empty insurance or code field.
C7_MatchedCount ==
    /\ (pc = "appointments" /\ apt_i > 0 /\ result = NotFound) =>
           /\ Len(output_rows) = apt_i
           /\ ~RowHasPayload(output_rows[apt_i])
    /\ pc = "appointments" => matched_count = MatchedRows(output_rows)
    /\ DOMAIN stats.doctors_processed = DOMAIN doctor_dfs
    /\ \A g \in DOMAIN doctor_dfs :
           stats.doctors_processed[g].matched = MatchedRows(doctor_dfs[g])

\* a finished run with a group of one matched and one unmatched row
C7_Witness ==
    /\ pc = "done"
    /\ \E g \in DOMAIN doctor_dfs :
          /\ Len(doctor_dfs[g]) = 2
          /\ \E i, j \in 1..2 :
                /\ RowHasPayload(doctor_dfs[g][i])
                /\ ~RowHasPayload(doctor_dfs[g][j])
                /\ doctor_dfs[g][j][1] = <<"R","o","e",","," ","E","v","e">>
          /\ stats.doctors_processed[g].matched = 1

\* C10: after run the output is a partition of the batch: the groups' rows
\* add up to the appointments, each group's 'total' is the number of its
\* rows, and the totals add up to total_appointments.
C10_Partition ==
    pc = "done" =>
        /\ SumOver(DOMAIN doctor_dfs, [g \in DOMAIN doctor_dfs |-> Len(doctor_dfs[g])])
               = Len(appointment_df)
        /\ \A g \in DOMAIN doctor_dfs :
               stats.doctors_processed[g].total = Len(doctor_dfs[g])
        /\ SumOver(DOMAIN stats.doctors_processed,
                   [g \in DOMAIN stats.doctors_processed |->
                       stats.doctors_processed[g].total])
               = stats.total_appointments

-----------------------------------------------------------------------------
(* Properties of parse_patient_name, checked under SpecParse *)

AllLetters(token) == \A i \in 1..Len(token) : IsLetter(token[i])

SurnameThenSuffixes(nm) ==
    /\ ~isna(nm)
    /\ LET tokens == split(nm) IN
          /\ Len(tokens) >= 2
          /\ AllLetters(tokens[1])
          /\ lower(tokens[1]) \notin SUFFIXES
          /\ \A i \in 2..Len(tokens) : lower(tokens[i]) \in SUFFIXES

\* C5: under first_last, a name made of one surname token followed by one or
\* more suffix tokens parses to the lower-cased surname and an empty given
\* token.
C5_SurnameWithSuffix ==
    (pc = "parsed" /\ format_hint = "first_last" /\ SurnameThenSuffixes(name)) =>
        parsed = <<lower(split(name)[1]), EmptyStr>>

\* C6: the surname returned under last_first is a fixed point of the
\* normalisation: normalize_basic followed by strip_suffixes, and
\* parse_patient_name under last_first, give it back.
C6_SurnameIdempotent ==
    (pc = "renormalized" /\ format_hint = "last_first") =>
        /\ renorm = parsed[1]
        /\ parse_patient_name(parsed[1], "last_first")[1] = parsed[1]

\* a surname that lost a suffix and kept more than one token
C6_Witness ==
    /\ pc = "renormalized" /\ format_hint = "last_first"
    /\ ~isna(name)
    /\ Len(split(parsed[1])) >= 1
    /\ Len(pop_suffixes(split(normalize_basic(name)))) < Len(split(normalize_basic(name)))
    /\ renorm = parsed[1]

-----------------------------------------------------------------------------
(* Properties of process_status, checked under SpecStatus *)

IsSeenWord(s) ==
    /\ Len(s) = 4
    /\ s[1] \in {"s", "S"} /\ s[2] \in {"e", "E"}
    /\ s[3] \in {"e", "E"} /\ s[4] \in {"n", "N"}

NonSpace(s) == { i \in 1..Len(s) : s[i] # " " }
Min(S) == CHOOSE x \in S : \A y \in S : x <= y
Max(S) == CHOOSE x \in S : \A y \in S : y <= x
Trimmed(s) ==
    IF NonSpace(s) = {} THEN EmptyStr
    ELSE SubSeq(s, Min(NonSpace(s)), Max(NonSpace(s)))

\* C8 as stated: "Seen" in any letter case, an empty and a missing status give
\* an empty field, and every other status is returned as it was given.
C8_PassThrough ==
    pc = "status_done" =>
        IF isna(status) \/ status = EmptyStr \/ IsSeenWord(status)
        THEN status_out = EmptyStr
        ELSE status_out = status

\* C8 as amended: a missing status, and a status that without its surrounding
\* whitespace is empty or "Seen" in any letter case, give an empty field;
\* every other status is returned without its surrounding whitespace.
C8_TrimmedPassThrough ==
    pc = "status_done" =>
        IF isna(status) THEN status_out = EmptyStr
        ELSE IF Trimmed(status) = EmptyStr \/ IsSeenWord(Trimmed(status))
             THEN status_out = EmptyStr
        ELSE status_out = Trimmed(status)

\* a padded status other than "Seen" has been processed
C8_Witness ==
    /\ pc = "status_done"
    /\ status = PendingPadded
    /\ status_out = Pending

=============================================================================
